---------------------------- MODULE Spec2Model ----------------------------
(***************************************************************************)
(* Transition construction (mint / burn) of .experimental/src/main.rs and  *)
(* Package::deploy of vm/package/deploy.rs.                                *)
(*                                                                         *)
(* 64-bit integers are written h * 2^63 + l as the record [h, l], with l a *)
(* small offset: the arithmetic below is exact on that form, so amounts    *)
(* around 2^63 and 2^64 keep their true width.                             *)
(***************************************************************************)
EXTENDS Integers, Sequences, FiniteSets, TLC

(***************************************************************************)
(* Bounds of the model.                                                    *)
(***************************************************************************)
\* Amounts are sampled at offsets 0..MaxOffset from 0, and -1..1 around 2^63.
MaxOffset == 2
\* The scalar field is modelled by the integers modulo ScalarOrder.
ScalarOrder == 3
\* Accounts (private key / view key / address triples) are 1..MaxKey.
MaxKey == 2
\* Randomizer nonces are 1..MaxNonce.
MaxNonce == 2
\* A program has at most MaxImports imports.
MaxImports == 2

\* burn minting one unit less than it should.
BurnAmountWrong == 100 - 1
\* The amount burn mints for itself (main.rs:295).
BurnAmount == 100
\* The network ID of a transaction (main.rs:269, main.rs:388).
NetworkId == 0
\* N::EDITION of the network a package deploys to.
Edition == 0

(***************************************************************************)
(* 64-bit integers.                                                        *)
(***************************************************************************)
Big(h, l) == [h |-> h, l |-> l]
Small(n) == Big(0, n)
BigAdd(a, b) == Big(a.h + b.h, a.l + b.l)
BigNeg(a) == Big(0 - a.h, 0 - a.l)
BigSub(a, b) == BigAdd(a, BigNeg(b))
BigLess(a, b) == a.h < b.h \/ (a.h = b.h /\ a.l < b.l)
BigZero == Small(0)
\* 2^64, i64::MIN and i64::MAX.
Two64 == Big(2, 0)
I64Min == Big(-1, 0)
I64Max == Big(1, -1)

\* `x as i64` for a u64 x: the same 64 bits read as two's complement.
AsI64(x) == IF BigLess(I64Max, x) THEN BigSub(x, Two64) ELSE x
\* The 64 bits of an i64, read as an unsigned number (to_bits_le).
ToBitsLE(x) == IF BigLess(x, BigZero) THEN BigAdd(x, Two64) ELSE x
\* i64 negation and abs without overflow checks: they wrap at i64::MIN.
WrappingNeg(x) == IF x = I64Min THEN I64Min ELSE BigNeg(x)
WrappingAbs(x) == IF BigLess(x, BigZero) THEN WrappingNeg(x) ELSE x
\* With overflow checks the same operations panic at i64::MIN.
NegOverflows(x) == x = I64Min
AbsOverflows(x) == x = I64Min
IsPositive(x) == BigLess(BigZero, x)

(***************************************************************************)
(* The scalar field and the commitment group.                              *)
(***************************************************************************)
Scalars == 0 .. (ScalarOrder - 1)
ScalarAdd(a, b) == (a + b) % ScalarOrder
ScalarSub(a, b) == (a - b) % ScalarOrder

\* Commit64(value, r) = value * G + r * H: the group order far exceeds 2^66,
\* so the value exponent is an exact integer.
Commit64(value, r) == [v |-> value, r |-> r % ScalarOrder]
PointZero == [v |-> BigZero, r |-> 0]
PointAdd(p, q) == [v |-> BigAdd(p.v, q.v), r |-> ScalarAdd(p.r, q.r)]
PointSub(p, q) == [v |-> BigSub(p.v, q.v), r |-> ScalarSub(p.r, q.r)]

RECURSIVE ScalarSum(_)
ScalarSum(s) == IF s = <<>> THEN 0 ELSE ScalarAdd(Head(s), ScalarSum(Tail(s)))
RECURSIVE PointSum(_)
PointSum(s) == IF s = <<>> THEN PointZero ELSE PointAdd(Head(s), PointSum(Tail(s)))


(***************************************************************************)
(* Values returned by the program.                                         *)
(***************************************************************************)
None == [tag |-> "None"]
Ok(tx) == [tag |-> "Ok", tx |-> tx]
Err(msg) == [tag |-> "Err", msg |-> msg]
\* A panic that unwinds out of the code that raised it.
Panic == [tag |-> "Panic"]
\* `{:?}` of an error.
DebugFmt(msg) == "Debug(" \o msg \o ")"

(***************************************************************************)
(* Accounts, records and the primitives of the console crates.             *)
(***************************************************************************)
Keys == 1 .. MaxKey
Nonces == 1 .. MaxNonce
ViewKeyOf(k) == [vk |-> k]
AddressOfViewKey(view_key) == [addr |-> view_key.vk]
AddressOfPrivateKey(k) == [addr |-> k]

\* record.to_record_view_key(view_key): the secret shared by the record's
\* randomizer nonce and a view key.
RecordViewKey(rec, view_key) == [nonce |-> rec.nonce, vk |-> view_key.vk]
HashToScalar(rvk) == (rvk.nonce + 2 * rvk.vk) % ScalarOrder

\* State::new followed by state.encrypt(&randomizer): the record carries
\* bcm = Commit64(balance, r_bcm), r_bcm hashed from the record view key of
\* its owner.
NewState(owner, balance) == [owner |-> owner, balance |-> balance]
Encrypt(state, nonce) ==
    [owner |-> state.owner,
     balance |-> state.balance,
     nonce |-> nonce,
     bcm |-> Commit64(state.balance,
                      HashToScalar([nonce |-> nonce, vk |-> state.owner.addr]))]
\* record.decrypt_symmetric(&record_view_key): fails under another key.
CanDecrypt(rec, rvk) == rvk = [nonce |-> rec.nonce, vk |-> rec.owner.addr]
Decrypt(rec) == NewState(rec.owner, rec.balance)
\* record.to_commitment() and record.to_serial_number(&private_key, rng).
RecordCommitment(rec) == [owner |-> rec.owner, balance |-> rec.balance, nonce |-> rec.nonce]
SerialNumber(rec, sk) == [cm |-> RecordCommitment(rec), sk |-> sk]

(***************************************************************************)
(* The commitment engine of main.rs.                                       *)
(***************************************************************************)
\* acm(caller, rng), r_acm being the scalar the rng yields.
Acm(caller_address, r_acm) ==
    [acm |-> [bhp |-> caller_address, r |-> r_acm], r_acm |-> r_acm]

\* bcm with the sampled k_bcm never added to the commitment.
BcmNoBlinding(record_bcm, record_view_key, k_bcm) ==
    [bcm |-> record_bcm,
     r_bcm |-> HashToScalar(record_view_key),
     k_bcm |-> k_bcm]

\* bcm(bcm, record_view_key, rng), k_bcm being the scalar the rng yields.
Bcm(record_bcm, record_view_key, k_bcm) ==
    [bcm |-> PointAdd(record_bcm, Commit64(BigZero, k_bcm)),
     r_bcm |-> HashToScalar(record_view_key),
     k_bcm |-> k_bcm]

\* fcm(r_in, r_out).
Fcm(r_in, r_out) ==
    LET r_fcm == ScalarSub(ScalarSum(r_in), ScalarSum(r_out))
    IN  [fcm |-> Commit64(BigZero, r_fcm), r_fcm |-> r_fcm]

\* burn's call of fcm with the two lists exchanged.
BurnFcmArgsSwapped(b) == [r_in |-> <<>>, r_out |-> <<ScalarAdd(b.r_bcm, b.k_bcm)>>]
\* The (r_in, r_out) of burn's call fcm::<A>(&[r_bcm + k_bcm], &[]), `b`
\* being what bcm returned.
BurnFcmArgs(b) == [r_in |-> <<ScalarAdd(b.r_bcm, b.k_bcm)>>, r_out |-> <<>>]

InputBcms(t) == [i \in 1 .. Len(t.inputs) |-> t.inputs[i].bcm]
OutputBcms(t) == [i \in 1 .. Len(t.outputs) |-> t.outputs[i].record.bcm]

\* Transition::fcm with every branch adding the fee term (a sign slip).
TransitionFcmAlwaysAdd(t) ==
    PointAdd(PointSub(PointSum(InputBcms(t)), PointSum(OutputBcms(t))),
             Commit64(ToBitsLE(WrappingAbs(t.fee)), 0))

\* Transition::fcm, where the abs does not panic.
TransitionFcm(t) ==
    LET sum == PointSub(PointSum(InputBcms(t)), PointSum(OutputBcms(t)))
        fee_cm == Commit64(ToBitsLE(WrappingAbs(t.fee)), 0)
    IN  IF IsPositive(t.fee) THEN PointSub(sum, fee_cm) ELSE PointAdd(sum, fee_cm)

\* What a call of Transition::fcm yields in a build with or without
\* overflow checks: fee.abs() panics at i64::MIN when they are on.
FcmCall(t, checks) ==
    IF checks /\ AbsOverflows(t.fee) THEN Panic ELSE [tag |-> "Ok", fcm |-> TransitionFcm(t)]

\* assert_eq!(fcm, transition.fcm()?) left out.
AssertEqSkipped(a, b) == TRUE
\* assert_eq!(fcm, transition.fcm()?): passes when both are equal.
AssertEq(a, b) == a = b

\* The transaction built with another network ID.
NewTransactionOtherNetwork(t) == [network |-> NetworkId + 1, transitions |-> <<t>>]
\* Transaction { network, transitions: vec![transition] }
NewTransaction(t) == [network |-> NetworkId, transitions |-> <<t>>]

\* A closure result with the panic left to unwind through the caller.
MatchProcessNoCatch(p) ==
    CASE p.tag = "Ok" -> Ok(p.tx)
      [] p.tag = "Err" -> Err(DebugFmt(p.msg))
      [] p.tag = "Panic" -> Panic

\* A closure result with every failure reported as "Thread failed".
MatchProcessOneTag(p) ==
    CASE p.tag = "Ok" -> Ok(p.tx)
      [] p.tag = "Err" -> Err("Thread failed")
      [] p.tag = "Panic" -> Err("Thread failed")

\* match process { Ok(Ok(tx)) => Ok(tx), Ok(Err(e)) => bail!("{:?}", e),
\*                 Err(_) => bail!("Thread failed") }
\* where `process` is what catch_unwind returned.
MatchProcess(p) ==
    CASE p.tag = "Ok" -> Ok(p.tx)
      [] p.tag = "Err" -> Err(DebugFmt(p.msg))
      [] p.tag = "Panic" -> Err("Thread failed")

(***************************************************************************)
(* The circuit environment and the proof backend.                          *)
(***************************************************************************)
\* circuit.execute(): the constraints of `kind` join the process-wide
\* context; `sat` tells whether the witness satisfies them.
Execute(ctx, kind, sat) ==
    [constraints |-> Append(ctx.constraints, kind),
     satisfied |-> ctx.satisfied /\ sat]
\* Circuit::eject(): the assignment of the context.
Eject(ctx) == [constraints |-> ctx.constraints, satisfied |-> ctx.satisfied]
\* snark::execute(assignment) when it returns a proof.
Prove(asg) == [of |-> asg]

(***************************************************************************)
(* The state of a build.                                                   *)
(***************************************************************************)
VARIABLES
    pc,             \* the statement the program is at
    entry,          \* the function main entered: "mint" or "burn"
    overflowChecks, \* whether the build panics on integer overflow
    caller,         \* the caller's account
    amount,         \* mint's `amount`
    record,         \* the record minted, then the record burn consumes
    acmv,           \* (acm, r_acm)
    bcmv,           \* burn's (bcm, r_bcm, k_bcm)
    fcmv,           \* (fcm, r_fcm), computed before the circuit
    fee,            \* burn's `fee`
    sn,             \* burn's serial number
    witness,        \* the (public, private) inputs of the circuit
    circuit,        \* the process-wide constraint-system context
    assignment,     \* what Circuit::eject() returned
    proof,          \* what snark::execute returned
    transition,     \* the transition assembled in the closure
    recomputed,     \* what transition.fcm() returned at the assert_eq!
    process,        \* what catch_unwind returned
    mintRet,        \* what mint returned
    burnRet         \* what burn returned

buildVars == <<pc, entry, overflowChecks, caller, amount, record, acmv, bcmv, fcmv,
               fee, sn, witness, circuit, assignment, proof, transition, recomputed,
               process, mintRet, burnRet>>

(***************************************************************************)
(* The state of the calls of bcm and of Package::deploy.                   *)
(***************************************************************************)
VARIABLES
    bcmRecord,      \* the record whose balance commitment is re-randomized
    bcmCalls        \* what the calls of bcm on that record returned, in order

bcmVars == <<bcmRecord, bcmCalls>>

VARIABLES
    dpc,            \* the statement deploy is at
    package,        \* the package: its main program and the program's imports
    endpoint,       \* deploy's `endpoint`
    proc,           \* the programs of `process`
    importIdx,      \* the import add_imports_to_process is at
    deployment,     \* what process.deploy returned
    request,        \* the deploy request sent
    response,       \* the deploy response received
    deployRet       \* what deploy returned

deployVars == <<dpc, package, endpoint, proc, importIdx, deployment, request, response,
                deployRet>>

\* The u64 amounts a mint is tried with.
Amounts ==
    {Small(d) : d \in 0 .. MaxOffset} \cup {Small(BurnAmount)}
        \cup {Big(1, d) : d \in -1 .. 1} \cup {Big(2, -1)}

InitBuild ==
    /\ pc = "main"
    /\ entry = "none"
    /\ overflowChecks \in BOOLEAN
    /\ caller = 0
    /\ amount = BigZero
    /\ record = None
    /\ acmv = None
    /\ bcmv = None
    /\ fcmv = None
    /\ fee = BigZero
    /\ sn = None
    /\ witness = None
    /\ circuit = [constraints |-> <<>>, satisfied |-> TRUE]
    /\ assignment = None
    /\ proof = None
    /\ transition = None
    /\ recomputed = None
    /\ process = None
    /\ mintRet = None
    /\ burnRet = None

\* main calls mint(rng, &caller_view_key, amount).
MainCallsMint ==
    /\ pc = "main"
    /\ \E k \in Keys, a \in Amounts :
        /\ caller' = k
        /\ amount' = a
    /\ entry' = "mint"
    /\ pc' = "mint_secrets"
    /\ UNCHANGED <<bcmVars, deployVars, overflowChecks, record, acmv, bcmv, fcmv, fee, sn, witness, circuit,
                   assignment, proof, transition, recomputed, process, mintRet, burnRet>>

\* main calls burn(rng).
MainCallsBurn ==
    /\ pc = "main"
    /\ entry' = "burn"
    /\ pc' = "burn_init"
    /\ UNCHANGED <<bcmVars, deployVars, overflowChecks, caller, amount, record, acmv, bcmv, fcmv, fee, sn,
                   witness, circuit, assignment, proof, transition, recomputed, process,
                   mintRet, burnRet>>

(***************************************************************************)
(* mint.                                                                   *)
(***************************************************************************)
\* mint returns `ret` to its caller: to burn's `?`, or to main.
MintExit(ret) ==
    /\ mintRet' = ret
    /\ pc' = IF entry = "burn" THEN "burn_after_mint" ELSE "done"

\* The closure of mint ends with `out` and catch_unwind returns it.
MintClosureEnds(out) ==
    /\ process' = out
    /\ pc' = "mint_match"

\* The caller address, the randomizer, the state and its record.
MintDeriveSecrets ==
    /\ pc = "mint_secrets"
    /\ \E o \in {"ok", "address", "randomizer", "encrypt"} :
        IF o = "ok"
        THEN /\ \E nonce \in Nonces :
                    record' = Encrypt(NewState(AddressOfViewKey(ViewKeyOf(caller)), amount),
                                      nonce)
             /\ pc' = "mint_commitments"
             /\ UNCHANGED mintRet
        ELSE /\ MintExit(Err(o))
             /\ UNCHANGED record
    /\ UNCHANGED <<bcmVars, deployVars, entry, overflowChecks, caller, amount, acmv, bcmv, fcmv, fee, sn, witness,
                   circuit, assignment, proof, transition, recomputed, process, burnRet>>

\* acm, the record view key, r_bcm and fcm(&[], &[r_bcm]).
MintComputeCommitments ==
    /\ pc = "mint_commitments"
    /\ \E o \in {"ok", "acm", "hash_to_scalar", "commit"} :
        IF o = "ok"
        THEN /\ \E r_acm \in Scalars :
                    acmv' = Acm(AddressOfViewKey(ViewKeyOf(caller)), r_acm)
             /\ fcmv' = Fcm(<<>>, <<HashToScalar(RecordViewKey(record, ViewKeyOf(caller)))>>)
             /\ pc' = "mint_witness"
             /\ UNCHANGED mintRet
        ELSE /\ MintExit(Err(o))
             /\ UNCHANGED <<acmv, fcmv>>
    /\ UNCHANGED <<bcmVars, deployVars, entry, overflowChecks, caller, amount, record, bcmv, fee, sn, witness,
                   circuit, assignment, proof, transition, recomputed, process, burnRet>>

\* Inside catch_unwind: the serial numbers digest, output::Public,
\* output::Private and OutputCircuit::from.
MintAssembleWitness ==
    /\ pc = "mint_witness"
    /\ \E o \in {"ok", "hash_bhp", "circuit_from"} :
        IF o = "ok"
        THEN /\ witness' =
                    [circuit |-> "output",
                     public |-> [output_index |-> 0, record |-> record,
                                 serial_numbers_digest |-> <<>>,
                                 acm |-> acmv.acm, fcm |-> fcmv.fcm],
                     private |-> [state |-> NewState(record.owner, amount),
                                  randomizer |-> record.nonce,
                                  caller |-> AddressOfViewKey(ViewKeyOf(caller)),
                                  r_acm |-> acmv.r_acm, r_fcm |-> fcmv.r_fcm]]
             /\ pc' = "mint_circuit"
             /\ UNCHANGED process
        ELSE /\ MintClosureEnds(Err(o))
             /\ UNCHANGED witness
    /\ UNCHANGED <<bcmVars, deployVars, entry, overflowChecks, caller, amount, record, acmv, bcmv, fcmv, fee, sn,
                   circuit, assignment, proof, transition, recomputed, mintRet, burnRet>>

\* execute(), the printed is_satisfied and counts, and Circuit::eject().
MintExecuteCircuit ==
    /\ pc = "mint_circuit"
    /\ \E o \in {"ok", "panic"}, sat \in BOOLEAN :
        IF o = "ok"
        THEN /\ circuit' = Execute(circuit, witness.circuit, sat)
             /\ assignment' = Eject(circuit')
             /\ pc' = "mint_prove"
             /\ UNCHANGED process
        ELSE /\ MintClosureEnds(Panic)
             /\ UNCHANGED <<circuit, assignment>>
    /\ UNCHANGED <<bcmVars, deployVars, entry, overflowChecks, caller, amount, record, acmv, bcmv, fcmv, fee, sn,
                   witness, proof, transition, recomputed, mintRet, burnRet>>

\* snark::execute(assignment)?
MintProve ==
    /\ pc = "mint_prove"
    /\ \E o \in {"ok", "snark", "panic"} :
        CASE o = "ok" ->
                /\ proof' = Prove(assignment)
                /\ pc' = "mint_assemble"
                /\ UNCHANGED process
          [] o = "snark" ->
                /\ MintClosureEnds(Err(o))
                /\ UNCHANGED proof
          [] o = "panic" ->
                /\ MintClosureEnds(Panic)
                /\ UNCHANGED proof
    /\ UNCHANGED <<bcmVars, deployVars, entry, overflowChecks, caller, amount, record, acmv, bcmv, fcmv, fee, sn,
                   witness, circuit, assignment, transition, recomputed, mintRet, burnRet>>

\* Transition { inputs: [], outputs: [record], ..., fee: -(amount as i64) }.
MintAssembleTransition ==
    /\ pc = "mint_assemble"
    /\ IF overflowChecks /\ NegOverflows(AsI64(amount))
       THEN /\ MintClosureEnds(Panic)
            /\ UNCHANGED transition
       ELSE /\ transition' =
                    [inputs |-> <<>>,
                     outputs |-> <<[record |-> record]>>,
                     input_proofs |-> <<>>,
                     output_proofs |-> <<proof>>,
                     acm |-> acmv.acm,
                     fee |-> WrappingNeg(AsI64(amount))]
            /\ pc' = "mint_check"
            /\ UNCHANGED process
    /\ UNCHANGED <<bcmVars, deployVars, entry, overflowChecks, caller, amount, record, acmv, bcmv, fcmv, fee, sn,
                   witness, circuit, assignment, proof, recomputed, mintRet, burnRet>>

\* assert_eq!(fcm, transition.fcm()?) and the transaction of network 0.
MintCheckConsistency ==
    /\ pc = "mint_check"
    /\ \E o \in {"ok", "commit"} :
        IF o = "ok"
        THEN /\ recomputed' = FcmCall(transition, overflowChecks)
             /\ process' =
                    IF recomputed'.tag = "Ok" /\ AssertEq(fcmv.fcm, recomputed'.fcm)
                    THEN Ok(NewTransaction(transition))
                    ELSE Panic
        ELSE /\ process' = Err(o)
             /\ UNCHANGED recomputed
    /\ pc' = "mint_match"
    /\ UNCHANGED <<bcmVars, deployVars, entry, overflowChecks, caller, amount, record, acmv, bcmv, fcmv, fee, sn,
                   witness, circuit, assignment, proof, transition, mintRet, burnRet>>

\* match process { ... }
MintReturn ==
    /\ pc = "mint_match"
    /\ MintExit(MatchProcess(process))
    /\ UNCHANGED <<bcmVars, deployVars, entry, overflowChecks, caller, amount, record, acmv, bcmv, fcmv, fee, sn,
                   witness, circuit, assignment, proof, transition, recomputed, process,
                   burnRet>>

(***************************************************************************)
(* burn.                                                                   *)
(***************************************************************************)
\* burn returns `ret` to main.
BurnExit(ret) ==
    /\ burnRet' = ret
    /\ pc' = "done"

\* The closure of burn ends with `out` and catch_unwind returns it.
BurnClosureEnds(out) ==
    /\ process' = out
    /\ pc' = "burn_match"

\* A new caller account: private key, view key, address.
BurnInit ==
    /\ pc = "burn_init"
    /\ \E o \in {"ok", "private_key", "view_key", "address"} :
        IF o = "ok"
        THEN /\ \E k \in Keys : caller' = k
             /\ pc' = "burn_call_mint"
             /\ UNCHANGED burnRet
        ELSE /\ BurnExit(Err(o))
             /\ UNCHANGED caller
    /\ UNCHANGED <<bcmVars, deployVars, entry, overflowChecks, amount, record, acmv, bcmv, fcmv, fee, sn, witness,
                   circuit, assignment, proof, transition, recomputed, process, mintRet>>

\* mint::<A, R>(rng, &caller_view_key, 100u64) is entered.
BurnCallMint ==
    /\ pc = "burn_call_mint"
    /\ amount' = Small(BurnAmount)
    /\ pc' = "mint_secrets"
    /\ UNCHANGED <<bcmVars, deployVars, entry, overflowChecks, caller, record, acmv, bcmv, fcmv, fee, sn, witness,
                   circuit, assignment, proof, transition, recomputed, process, mintRet,
                   burnRet>>

\* The `?` on mint's result, and the coinbase record of its transaction.
BurnAfterMint ==
    /\ pc = "burn_after_mint"
    /\ IF mintRet.tag = "Ok"
       THEN /\ record' = mintRet.tx.transitions[1].outputs[1].record
            /\ pc' = "burn_secrets"
            /\ UNCHANGED burnRet
       ELSE /\ BurnExit(mintRet)
            /\ UNCHANGED record
    /\ UNCHANGED <<bcmVars, deployVars, entry, overflowChecks, caller, amount, acmv, bcmv, fcmv, fee, sn, witness,
                   circuit, assignment, proof, transition, recomputed, process, mintRet>>

\* The program tree and path, the record view key, the serial number and
\* its signature.
BurnDeriveSecrets ==
    /\ pc = "burn_secrets"
    /\ \E o \in {"ok", "merkle_tree", "merkle_path", "serial_number", "signature"} :
        IF o = "ok"
        THEN /\ sn' = SerialNumber(record, caller)
             /\ pc' = "burn_commitments"
             /\ UNCHANGED burnRet
        ELSE /\ BurnExit(Err(o))
             /\ UNCHANGED sn
    /\ UNCHANGED <<bcmVars, deployVars, entry, overflowChecks, caller, amount, record, acmv, bcmv, fcmv, fee,
                   witness, circuit, assignment, proof, transition, recomputed, process,
                   mintRet>>

\* acm, the decrypted state and fee, bcm and fcm(&[r_bcm + k_bcm], &[]).
BurnComputeCommitments ==
    /\ pc = "burn_commitments"
    /\ \E o \in {"ok", "acm", "decrypt", "hash_to_scalar", "commit"} :
        LET rvk == RecordViewKey(record, ViewKeyOf(caller))
        IN  IF o = "ok" /\ CanDecrypt(record, rvk)
            THEN /\ \E r_acm \in Scalars :
                        acmv' = Acm(AddressOfPrivateKey(caller), r_acm)
                 /\ fee' = AsI64(Decrypt(record).balance)
                 /\ \E k_bcm \in Scalars :
                        /\ bcmv' = Bcm(record.bcm, rvk, k_bcm)
                        /\ fcmv' = Fcm(BurnFcmArgs(bcmv').r_in, BurnFcmArgs(bcmv').r_out)
                 /\ pc' = "burn_witness"
                 /\ UNCHANGED burnRet
            ELSE /\ BurnExit(Err(IF o = "ok" THEN "decrypt" ELSE o))
                 /\ UNCHANGED <<acmv, fee, bcmv, fcmv>>
    /\ UNCHANGED <<bcmVars, deployVars, entry, overflowChecks, caller, amount, record, sn, witness, circuit,
                   assignment, proof, transition, recomputed, process, mintRet>>

\* Inside catch_unwind: input::Public, input::Private, InputCircuit::from.
BurnAssembleWitness ==
    /\ pc = "burn_witness"
    /\ \E o \in {"ok", "circuit_from"} :
        IF o = "ok"
        THEN /\ witness' =
                    [circuit |-> "input",
                     public |-> [root |-> <<RecordCommitment(record)>>,
                                 serial_number |-> sn,
                                 acm |-> acmv.acm, bcm |-> bcmv.bcm, fcm |-> fcmv.fcm],
                     private |-> [record_view_key |->
                                      RecordViewKey(record, ViewKeyOf(caller)),
                                  record |-> record,
                                  serial_number |-> sn,
                                  signature |-> [signer |-> caller, message |-> sn],
                                  r_acm |-> acmv.r_acm, k_bcm |-> bcmv.k_bcm,
                                  r_fcm |-> fcmv.r_fcm]]
             /\ pc' = "burn_circuit"
             /\ UNCHANGED process
        ELSE /\ BurnClosureEnds(Err(o))
             /\ UNCHANGED witness
    /\ UNCHANGED <<bcmVars, deployVars, entry, overflowChecks, caller, amount, record, acmv, bcmv, fcmv, fee, sn,
                   circuit, assignment, proof, transition, recomputed, mintRet, burnRet>>

\* input_circuit.execute(), the printed counts, and Circuit::eject().
BurnExecuteCircuit ==
    /\ pc = "burn_circuit"
    /\ \E o \in {"ok", "panic"}, sat \in BOOLEAN :
        IF o = "ok"
        THEN /\ circuit' = Execute(circuit, witness.circuit, sat)
             /\ assignment' = Eject(circuit')
             /\ pc' = "burn_prove"
             /\ UNCHANGED process
        ELSE /\ BurnClosureEnds(Panic)
             /\ UNCHANGED <<circuit, assignment>>
    /\ UNCHANGED <<bcmVars, deployVars, entry, overflowChecks, caller, amount, record, acmv, bcmv, fcmv, fee, sn,
                   witness, proof, transition, recomputed, mintRet, burnRet>>

\* snark::execute(assignment)?
BurnProve ==
    /\ pc = "burn_prove"
    /\ \E o \in {"ok", "snark", "panic"} :
        CASE o = "ok" ->
                /\ proof' = Prove(assignment)
                /\ pc' = "burn_assemble"
                /\ UNCHANGED process
          [] o = "snark" ->
                /\ BurnClosureEnds(Err(o))
                /\ UNCHANGED proof
          [] o = "panic" ->
                /\ BurnClosureEnds(Panic)
                /\ UNCHANGED proof
    /\ UNCHANGED <<bcmVars, deployVars, entry, overflowChecks, caller, amount, record, acmv, bcmv, fcmv, fee, sn,
                   witness, circuit, assignment, transition, recomputed, mintRet, burnRet>>

\* Transition { inputs: [Input(serial_number, bcm)], outputs: [], ..., fee }.
BurnAssembleTransition ==
    /\ pc = "burn_assemble"
    /\ transition' =
            [inputs |-> <<[serial_number |-> sn, bcm |-> bcmv.bcm]>>,
             outputs |-> <<>>,
             input_proofs |-> <<proof>>,
             output_proofs |-> <<>>,
             acm |-> acmv.acm,
             fee |-> fee]
    /\ pc' = "burn_check"
    /\ UNCHANGED <<bcmVars, deployVars, entry, overflowChecks, caller, amount, record, acmv, bcmv, fcmv, fee, sn,
                   witness, circuit, assignment, proof, recomputed, process, mintRet,
                   burnRet>>

\* assert_eq!(fcm, transition.fcm()?) and the transaction of network 0.
BurnCheckConsistency ==
    /\ pc = "burn_check"
    /\ \E o \in {"ok", "commit"} :
        IF o = "ok"
        THEN /\ recomputed' = FcmCall(transition, overflowChecks)
             /\ process' =
                    IF recomputed'.tag = "Ok" /\ AssertEq(fcmv.fcm, recomputed'.fcm)
                    THEN Ok(NewTransaction(transition))
                    ELSE Panic
        ELSE /\ process' = Err(o)
             /\ UNCHANGED recomputed
    /\ pc' = "burn_match"
    /\ UNCHANGED <<bcmVars, deployVars, entry, overflowChecks, caller, amount, record, acmv, bcmv, fcmv, fee, sn,
                   witness, circuit, assignment, proof, transition, mintRet, burnRet>>

\* match process { ... }
BurnReturn ==
    /\ pc = "burn_match"
    /\ BurnExit(MatchProcess(process))
    /\ UNCHANGED <<bcmVars, deployVars, entry, overflowChecks, caller, amount, record, acmv, bcmv, fcmv, fee, sn,
                   witness, circuit, assignment, proof, transition, recomputed, process,
                   mintRet>>

NextBuild ==
    \/ MainCallsMint
    \/ MainCallsBurn
    \/ MintDeriveSecrets
    \/ MintComputeCommitments
    \/ MintAssembleWitness
    \/ MintExecuteCircuit
    \/ MintProve
    \/ MintAssembleTransition
    \/ MintCheckConsistency
    \/ MintReturn
    \/ BurnInit
    \/ BurnCallMint
    \/ BurnAfterMint
    \/ BurnDeriveSecrets
    \/ BurnComputeCommitments
    \/ BurnAssembleWitness
    \/ BurnExecuteCircuit
    \/ BurnProve
    \/ BurnAssembleTransition
    \/ BurnCheckConsistency
    \/ BurnReturn

(***************************************************************************)
(* Calls of bcm on one record.                                             *)
(***************************************************************************)
\* At most MaxCalls calls are made on the record.
MaxCalls == 2

InitBcmIdle ==
    /\ bcmRecord = None
    /\ bcmCalls = <<>>

\* A record as mint encrypts it, held by its owner.
InitBcm ==
    /\ \E k \in Keys, nonce \in Nonces, a \in Amounts :
            bcmRecord = Encrypt(NewState(AddressOfPrivateKey(k), a), nonce)
    /\ bcmCalls = <<>>

\* bcm(record.bcm(), record_view_key, rng), as the owner of the record calls
\* it (main.rs:348).
BcmCall ==
    /\ bcmRecord # None
    /\ Len(bcmCalls) < MaxCalls
    /\ \E o \in {"ok", "hash_to_scalar", "commit"}, k_bcm \in Scalars :
        LET rvk == RecordViewKey(bcmRecord, [vk |-> bcmRecord.owner.addr])
        IN  bcmCalls' = Append(bcmCalls,
                               IF o = "ok"
                               THEN [tag |-> "Ok", val |-> Bcm(bcmRecord.bcm, rvk, k_bcm)]
                               ELSE Err(o))
    /\ UNCHANGED <<buildVars, deployVars, bcmRecord>>

(***************************************************************************)
(* Package::deploy.                                                        *)
(***************************************************************************)
\* The ID of the package's main program; imports are the IDs 1..MaxImports.
MainProgramId == 0
ImportIds == 1 .. MaxImports
\* The import lists of a program: no program is imported twice.
ImportLists ==
    {s \in UNION {[1 .. n -> ImportIds] : n \in 0 .. MaxImports} :
        \A i, j \in DOMAIN s : i # j => s[i] # s[j]}
Program(id, imports) == [id |-> id, imports |-> imports]
NoEndpoint == [tag |-> "None"]
SomeEndpoint == [tag |-> "Some", url |-> "endpoint"]

OkDeployment(d) == [tag |-> "Ok", deployment |-> d]
\* bail!("The program {} needs to be deployed before {}", import, program.id())
NeedsDeployment(import, id) ==
    [tag |-> "Err", msg |-> "needs to be deployed before", import |-> import, program |-> id]
\* ensure!(..., "Program ID mismatch: {} != {program_id}", ...)
ProgramIdMismatch(got, id) ==
    [tag |-> "Err", msg |-> "Program ID mismatch", got |-> got, program |-> id]

\* process.deploy::<A, _>(program, rng): the deployment of `program` at the
\* network's edition; it fails when an import is not in the process.
CanDeploy(programs, program) ==
    \A i \in DOMAIN program.imports : program.imports[i] \in programs
NewDeployment(program) == [edition |-> Edition, program |-> program]

\* DeployRequest::new(deployment, address, program_id)
DeployRequest(d, address, program_id) ==
    [deployment |-> d, address |-> address, program_id |-> program_id]
\* The deployments an endpoint may answer a request with: the one sent, one
\* of the same program at another edition, one of another program.
ResponseDeployments(req) ==
    {req.deployment,
     [edition |-> Edition + 1, program |-> req.deployment.program],
     NewDeployment(Program(1, <<>>))}

InitDeployIdle ==
    /\ dpc = "idle"
    /\ package = None
    /\ endpoint = NoEndpoint
    /\ proc = {}
    /\ importIdx = 1
    /\ deployment = None
    /\ request = None
    /\ response = None
    /\ deployRet = None

\* A package is opened and deploy(endpoint) is called on it.
InitDeploy ==
    /\ dpc = "load"
    /\ \E imports \in ImportLists : package = Program(MainProgramId, imports)
    /\ endpoint \in {NoEndpoint, SomeEndpoint}
    /\ proc = {}
    /\ importIdx = 1
    /\ deployment = None
    /\ request = None
    /\ response = None
    /\ deployRet = None

\* deploy returns `ret`, or unwinds with a panic.
DeployExit(ret) ==
    /\ deployRet' = ret
    /\ dpc' = "done"

\* The main program, its ID, the caller, and Process::load()?.
DeployLoad ==
    /\ dpc = "load"
    /\ \E o \in {"ok", "load"} :
        IF o = "ok"
        THEN /\ dpc' = "imports"
             /\ UNCHANGED deployRet
        ELSE DeployExit(Err(o))
    /\ UNCHANGED <<buildVars, bcmVars, package, endpoint, proc, importIdx, deployment,
                   request, response>>

\* One turn of the loop of add_imports_to_process: the import is fetched,
\* parsed and added to the process.
DeployAddImport ==
    /\ dpc = "imports"
    /\ importIdx <= Len(package.imports)
    /\ \E o \in {"ok", "no_answer", "error_status", "bad_body", "from_str", "add_program"} :
        LET import == package.imports[importIdx]
        IN  CASE o = "ok" ->
                    /\ \E served \in ImportIds : proc' = proc \cup {served}
                    /\ importIdx' = importIdx + 1
                    /\ UNCHANGED <<dpc, deployRet>>
              [] o = "bad_body" ->
                    /\ DeployExit(NeedsDeployment(import, package.id))
                    /\ UNCHANGED <<proc, importIdx>>
              [] OTHER ->
                    /\ DeployExit(Err(o))
                    /\ UNCHANGED <<proc, importIdx>>
    /\ UNCHANGED <<buildVars, bcmVars, package, endpoint, deployment, request, response>>

\* After the loop: process.deploy::<A, _>(program, rng).unwrap().
DeployCompute ==
    /\ dpc = "imports"
    /\ importIdx > Len(package.imports)
    /\ IF CanDeploy(proc, package)
       THEN /\ deployment' = NewDeployment(package)
            /\ dpc' = "match"
            /\ UNCHANGED deployRet
       ELSE /\ DeployExit(Panic)
            /\ UNCHANGED deployment
    /\ UNCHANGED <<buildVars, bcmVars, package, endpoint, proc, importIdx, request,
                   response>>

\* match endpoint { None => Ok(deployment) }
DeployLocal ==
    /\ dpc = "match"
    /\ endpoint.tag = "None"
    /\ DeployExit(OkDeployment(deployment))
    /\ UNCHANGED <<buildVars, bcmVars, package, endpoint, proc, importIdx, deployment,
                   request, response>>

\* match endpoint { Some(endpoint) => ... request.send(endpoint)? }
DeploySend ==
    /\ dpc = "match"
    /\ endpoint.tag = "Some"
    /\ request' = DeployRequest(deployment, "development_address", package.id)
    /\ \E o \in {"ok", "no_answer", "error_status", "bad_body"} :
        IF o = "ok"
        THEN /\ \E d \in ResponseDeployments(request') : response' = [deployment |-> d]
             /\ dpc' = "ensure"
             /\ UNCHANGED deployRet
        ELSE /\ DeployExit(Err(o))
             /\ UNCHANGED response
    /\ UNCHANGED <<buildVars, bcmVars, package, endpoint, proc, importIdx, deployment>>

\* The response's deployment returned without the ensure! on its program ID.
DeployEnsureUnchecked ==
    /\ dpc = "ensure"
    /\ DeployExit(OkDeployment(response.deployment))
    /\ UNCHANGED <<buildVars, bcmVars, package, endpoint, proc, importIdx, deployment,
                   request, response>>

\* ensure!(response.deployment.program_id() == program_id, ...) and
\* Ok(response.deployment).
DeployEnsure ==
    /\ dpc = "ensure"
    /\ IF response.deployment.program.id = package.id
       THEN DeployExit(OkDeployment(response.deployment))
       ELSE DeployExit(ProgramIdMismatch(response.deployment.program.id, package.id))
    /\ UNCHANGED <<buildVars, bcmVars, package, endpoint, proc, importIdx, deployment,
                   request, response>>

NextDeploy ==
    \/ DeployLoad
    \/ DeployAddImport
    \/ DeployCompute
    \/ DeployLocal
    \/ DeploySend
    \/ DeployEnsure

(***************************************************************************)
(* The specifications.                                                     *)
(***************************************************************************)
vars == <<buildVars, bcmVars, deployVars>>

\* A build: main calls mint or burn.
Init == InitBuild /\ InitBcmIdle /\ InitDeployIdle
Next == NextBuild
Spec == Init /\ [][Next]_vars

\* Calls of bcm on one record.
NextBcm == BcmCall
InitBcmCalls == InitBuild /\ InitBcm /\ InitDeployIdle
SpecBcm == InitBcmCalls /\ [][NextBcm]_vars

\* A call of Package::deploy.
InitDeployCall == InitBuild /\ InitBcmIdle /\ InitDeploy
SpecDeploy == InitDeployCall /\ [][NextDeploy]_vars

(***************************************************************************)
(* Properties.                                                             *)
(***************************************************************************)
\* mint has returned and its locals (fcm, process, ...) are still in place.
MintFrameLive == pc = "burn_after_mint" \/ (pc = "done" /\ entry = "mint")
\* burn has returned.
BurnReturned == pc = "done" /\ entry = "burn"
\* The i64 values a fee field is overwritten with.
I64Samples ==
    {Small(d) : d \in (0 - MaxOffset) .. MaxOffset}
        \cup {Small(BurnAmount), Small(0 - BurnAmount)}
        \cup {I64Min, Big(-1, 1), I64Max, Big(1, -2)}
\* The assert_eq! on the recomputed fee commitment passes.
ConsistencyPasses(t) ==
    LET call == FcmCall(t, overflowChecks)
    IN  call.tag = "Ok" /\ call.fcm = fcmv.fcm

\* C1: whenever mint, or burn, returns a Transaction, the fee commitment
\* recomputed from its transition by Transition.fcm() equals the fcm that
\* fcm(r_in, r_out) = Commit64(0, sum r_in - sum r_out) gave before the
\* circuit. The two agree by the algebra, before the assertion compares
\* them, in every burn and in every mint of an amount below 2^63.
C1_RecomputedFcmEqualsPreCircuit ==
    /\ (pc = "mint_check" /\ BigLess(amount, Big(1, 0))) =>
            TransitionFcm(transition) = fcmv.fcm
    /\ pc = "burn_check" => TransitionFcm(transition) = fcmv.fcm
    /\ (MintFrameLive /\ mintRet.tag = "Ok") =>
            /\ fcmv = Fcm(<<>>, <<HashToScalar(RecordViewKey(record, ViewKeyOf(caller)))>>)
            /\ TransitionFcm(mintRet.tx.transitions[1]) = fcmv.fcm
            /\ recomputed = [tag |-> "Ok", fcm |-> fcmv.fcm]
    /\ (BurnReturned /\ burnRet.tag = "Ok") =>
            /\ fcmv = Fcm(<<ScalarAdd(bcmv.r_bcm, bcmv.k_bcm)>>, <<>>)
            /\ TransitionFcm(burnRet.tx.transitions[1]) = fcmv.fcm
            /\ recomputed = [tag |-> "Ok", fcm |-> fcmv.fcm]

\* A burn, and the mint inside it, returned a Transaction.
C1_Witness == BurnReturned /\ burnRet.tag = "Ok" /\ mintRet.tag = "Ok"

\* C2: a Transaction returned by mint has network 0 and one transition,
\* with no input and no input proof, one output owned by the caller with
\* balance `amount`, one output proof, and fee -amount.
C2_MintTransactionShape ==
    mintRet.tag = "Ok" =>
        LET tx == mintRet.tx
            t == tx.transitions[1]
        IN  /\ tx.network = 0
            /\ Len(tx.transitions) = 1
            /\ Len(t.inputs) = 0
            /\ Len(t.input_proofs) = 0
            /\ Len(t.outputs) = 1
            /\ t.outputs[1].record.owner = AddressOfViewKey(ViewKeyOf(caller))
            /\ t.outputs[1].record.balance = amount
            /\ Len(t.output_proofs) = 1
            /\ t.fee = BigNeg(amount)

\* main's mint of 2 units returned a Transaction.
C2_Witness == entry = "mint" /\ pc = "done" /\ amount = Small(2) /\ mintRet.tag = "Ok"

\* C3: a Transaction returned by burn has network 0 and one transition, with
\* one input (the serial number of the record its mint of 100 produced and
\* that record's re-randomized bcm), one input proof, no output, no output
\* proof, and fee +100, the decrypted balance of the record.
C3_BurnTransactionShape ==
    burnRet.tag = "Ok" =>
        LET tx == burnRet.tx
            t == tx.transitions[1]
            minted == mintRet.tx.transitions[1].outputs[1].record
        IN  /\ tx.network = 0
            /\ Len(tx.transitions) = 1
            /\ Len(t.inputs) = 1
            /\ minted.balance = Small(100)
            /\ t.inputs[1].serial_number = SerialNumber(minted, caller)
            /\ t.inputs[1].bcm = PointAdd(minted.bcm, Commit64(BigZero, bcmv.k_bcm))
            /\ Len(t.input_proofs) = 1
            /\ Len(t.outputs) = 0
            /\ Len(t.output_proofs) = 0
            /\ t.fee = Decrypt(minted).balance
            /\ t.fee = Small(100)

\* burn returned a Transaction whose bcm was re-randomized by a non-zero k_bcm.
C3_Witness == BurnReturned /\ burnRet.tag = "Ok" /\ bcmv.k_bcm # 0

\* C4: with the fee of an assembled mint or burn transition replaced by any
\* i64 other than the true balance difference (inputs minus outputs), the
\* consistency check on Transition.fcm() does not pass.
C4_AlteredFeeFailsCheck ==
    pc \in {"mint_check", "burn_check"} =>
        LET difference == IF pc = "mint_check" THEN BigNeg(record.balance)
                          ELSE record.balance
        IN  \A f \in I64Samples :
                f # difference => ~ConsistencyPasses([transition EXCEPT !.fee = f])

\* A mint of 1 unit is at its check: the fee -1 passes and the fee +1 does not.
C4_Witness ==
    /\ pc = "mint_check"
    /\ amount = Small(1)
    /\ ConsistencyPasses(transition)
    /\ ~ConsistencyPasses([transition EXCEPT !.fee = Small(1)])

\* C5: mint and burn fail fast. Each returns a Transaction or an error, and
\* never lets a panic through; a Transaction is returned only when the
\* closure ended with that complete Transaction; an error carries no
\* transition; and when its mint fails burn returns that error having built
\* nothing of its own.
C5_FailFast ==
    /\ MintFrameLive =>
            /\ mintRet.tag \in {"Ok", "Err"}
            /\ mintRet.tag = "Ok" <=> process.tag = "Ok"
            /\ mintRet.tag = "Ok" =>
                    /\ mintRet.tx = process.tx
                    /\ mintRet.tx.transitions = <<transition>>
                    /\ transition.output_proofs = <<proof>>
                    /\ proof # None
            /\ mintRet.tag = "Err" => DOMAIN mintRet = {"tag", "msg"}
    /\ BurnReturned =>
            /\ burnRet.tag \in {"Ok", "Err"}
            /\ burnRet.tag = "Ok" =>
                    /\ mintRet.tag = "Ok"
                    /\ process = Ok(burnRet.tx)
                    /\ burnRet.tx.transitions = <<transition>>
                    /\ transition.input_proofs = <<proof>>
            /\ process.tag \in {"Err", "Panic"} => burnRet.tag = "Err"
            /\ burnRet.tag = "Err" => DOMAIN burnRet = {"tag", "msg"}
            /\ (mintRet # None /\ mintRet.tag # "Ok") =>
                    /\ burnRet = mintRet
                    /\ sn = None
                    /\ bcmv = None
                    /\ Len(circuit.constraints) <= 1

\* burn returned the error of a panic inside the closure of its mint.
C5_Witness ==
    /\ BurnReturned
    /\ process = Panic
    /\ mintRet = Err("Thread failed")
    /\ burnRet = mintRet

\* C6 as stated: a failure inside the closure that is a panic (a panic of
\* the circuit, the failed fcm assertion) is reported with a tag other than
\* "Thread failed".
C6_InternalFailureNotThreadFailed ==
    (MintFrameLive /\ process = Panic) => mintRet # Err("Thread failed")

\* C6, amended: an error returned inside the closure is reported with its
\* debug text, which is never "Thread failed"; a panic inside the closure,
\* the failed fcm assertion included, is reported as "Thread failed".
C6_PanicIsThreadFailedErrorIsDebug ==
    /\ MintFrameLive =>
            /\ process = Panic => mintRet = Err("Thread failed")
            /\ process.tag = "Err" =>
                    /\ mintRet = Err(DebugFmt(process.msg))
                    /\ mintRet # Err("Thread failed")
            /\ (recomputed # None /\ recomputed # [tag |-> "Ok", fcm |-> fcmv.fcm])
                    => mintRet = Err("Thread failed")
    /\ (BurnReturned /\ mintRet.tag = "Ok") =>
            /\ process = Panic => burnRet = Err("Thread failed")
            /\ process.tag = "Err" =>
                    /\ burnRet = Err(DebugFmt(process.msg))
                    /\ burnRet # Err("Thread failed")

\* The fcm assertion of a mint failed and mint returned "Thread failed".
C6_Witness ==
    /\ MintFrameLive
    /\ recomputed.tag = "Ok"
    /\ recomputed.fcm # fcmv.fcm
    /\ process = Panic
    /\ mintRet = Err("Thread failed")

\* C7: when the constraint system is not satisfied after the circuit ran,
\* no Transaction carrying a proof of that circuit is returned.
C7_UnsatisfiedCircuitNotReturned ==
    /\ mintRet.tag = "Ok" =>
            \A i \in DOMAIN mintRet.tx.transitions[1].output_proofs :
                mintRet.tx.transitions[1].output_proofs[i].of.satisfied
    /\ burnRet.tag = "Ok" =>
            \A i \in DOMAIN burnRet.tx.transitions[1].input_proofs :
                burnRet.tx.transitions[1].input_proofs[i].of.satisfied

\* C8: for every u64 amount, a mint that returns a Transaction has fee
\* -amount, and neither `amount as i64`, the negation nor the abs of
\* Transition.fcm() wrapped.
C8_MintFeeNeverWraps ==
    (entry = "mint" /\ mintRet.tag = "Ok") =>
        LET t == mintRet.tx.transitions[1]
        IN  /\ t.fee = BigNeg(amount)
            /\ AsI64(amount) = amount
            /\ ~NegOverflows(AsI64(amount))
            /\ ~AbsOverflows(t.fee)

\* C9: the calls of bcm on one record return the same r_bcm; calls whose
\* k_bcm differ return different commitments; and each returned bcm' has
\* bcm' - Commit64(balance, 0) = fcm([r_bcm + k_bcm], []).
C9_BcmRerandomizes ==
    \A i, j \in DOMAIN bcmCalls :
        (bcmCalls[i].tag = "Ok" /\ bcmCalls[j].tag = "Ok") =>
            LET a == bcmCalls[i].val
                b == bcmCalls[j].val
            IN  /\ a.r_bcm = b.r_bcm
                /\ a.k_bcm # b.k_bcm => a.bcm # b.bcm
                /\ PointSub(a.bcm, Commit64(bcmRecord.balance, 0))
                        = Fcm(<<ScalarAdd(a.r_bcm, a.k_bcm)>>, <<>>).fcm

\* Two calls on one record returned, with different k_bcm.
C9_Witness ==
    /\ Len(bcmCalls) = 2
    /\ bcmCalls[1].tag = "Ok"
    /\ bcmCalls[2].tag = "Ok"
    /\ bcmCalls[1].val.k_bcm # bcmCalls[2].val.k_bcm

\* C10: deploy(None), once the process is loaded, succeeds for a package
\* with or without imports and returns a deployment of the network's
\* edition whose program ID and program are the package's.
C10_DeployWithoutEndpointSucceeds ==
    (dpc = "done" /\ endpoint = NoEndpoint /\ deployRet # Err("load")) =>
        /\ deployRet.tag = "Ok"
        /\ deployRet.deployment.edition = Edition
        /\ deployRet.deployment.program.id = package.id
        /\ deployRet.deployment.program = package

\* The statements of a build, in the order of the construction steps: at
\* the i-th the build has yet to take its i-th step (derive the secrets,
\* compute the commitments, assemble the witness, execute the circuit,
\* obtain the proof, assemble the transition, check the consistency); the
\* last is the match on what the closure returned.
MintOrder ==
    <<"mint_secrets", "mint_commitments", "mint_witness", "mint_circuit", "mint_prove",
      "mint_assemble", "mint_check", "mint_match">>
BurnOrder ==
    <<"burn_secrets", "burn_commitments", "burn_witness", "burn_circuit", "burn_prove",
      "burn_assemble", "burn_check", "burn_match">>
\* The statements a function that returned leaves the program at.
Returned == {"burn_after_mint", "done"}
\* What the consistency check compares equal: the recomputed fcm is the
\* pre-circuit fcm.
FcmsAgree(call) == call = [tag |-> "Ok", fcm |-> fcmv.fcm]

\* A step of the program keeps the order of the construction steps.
StepKeepsOrder ==
    /\ \A order \in {MintOrder, BurnOrder} : \A i \in 1 .. 7 :
            pc = order[i] => pc' \in {order[i + 1], order[8]} \cup Returned
    /\ \A order \in {MintOrder, BurnOrder} : pc = order[8] => pc' \in Returned
    /\ record' # record => pc \in {MintOrder[1], "burn_after_mint"}
    /\ sn' # sn => pc = BurnOrder[1]
    /\ (fcmv' # fcmv \/ acmv' # acmv \/ bcmv' # bcmv) => pc \in {MintOrder[2], BurnOrder[2]}
    /\ witness' # witness => pc \in {MintOrder[3], BurnOrder[3]}
    /\ (circuit' # circuit \/ assignment' # assignment) => pc \in {MintOrder[4], BurnOrder[4]}
    /\ proof' # proof => pc \in {MintOrder[5], BurnOrder[5]} /\ proof' = Prove(assignment)
    /\ transition' # transition =>
            /\ pc \in {MintOrder[6], BurnOrder[6]}
            /\ proof \in {transition'.input_proofs[i] : i \in DOMAIN transition'.input_proofs}
                    \cup {transition'.output_proofs[i] : i \in DOMAIN transition'.output_proofs}
    /\ recomputed' # recomputed => pc \in {MintOrder[7], BurnOrder[7]}

\* A Transaction comes out of the closure, and out of the function, only
\* past a consistency check that passed; a mismatch ends in an error.
StepReturnsOnlyChecked ==
    /\ (process' # process /\ process'.tag = "Ok") =>
            /\ pc \in {MintOrder[7], BurnOrder[7]}
            /\ FcmsAgree(recomputed')
            /\ process' = Ok(NewTransaction(transition))
    /\ (pc \in {MintOrder[7], BurnOrder[7]} /\ ~FcmsAgree(FcmCall(transition, overflowChecks))) =>
            process'.tag \in {"Err", "Panic"}
    /\ (mintRet' # mintRet /\ mintRet'.tag = "Ok") =>
            pc = MintOrder[8] /\ FcmsAgree(recomputed) /\ mintRet' = Ok(process.tx)
    /\ (burnRet' # burnRet /\ burnRet'.tag = "Ok") =>
            pc = BurnOrder[8] /\ FcmsAgree(recomputed) /\ burnRet' = Ok(process.tx)
    /\ (pc = MintOrder[8] /\ process.tag # "Ok") =>
            mintRet'.tag = "Err" /\ DOMAIN mintRet' = {"tag", "msg"}
    /\ (pc = BurnOrder[8] /\ process.tag # "Ok") =>
            burnRet'.tag = "Err" /\ DOMAIN burnRet' = {"tag", "msg"}

\* C11: in mint and in burn the construction steps are taken in the fixed
\* order secrets, commitments, witness, circuit, proof, transition,
\* consistency check, each product being made at its own step only; a
\* Transaction is returned only after the check found the recomputed fcm
\* equal to the pre-circuit fcm; and a mismatch always ends the build with
\* an error and no Transaction.
C11_StepsInOrderAndCheckedReturn == [][StepKeepsOrder /\ StepReturnsOnlyChecked]_vars

\* The closure of a burn passed its consistency check, after the mint
\* inside the burn passed its own.
C11_Witness ==
    /\ pc = "burn_match"
    /\ mintRet.tag = "Ok"
    /\ process = Ok(NewTransaction(transition))
    /\ FcmsAgree(recomputed)
    /\ transition.input_proofs = <<proof>>

\* burn has called bcm and fcm, and their results are in place.
BurnFcmLive == pc \in {BurnOrder[i] : i \in 3 .. 8} \/ (BurnReturned /\ bcmv # None)

\* C12 as stated: burn's fee commitment is what fcm(r_in, r_out) gives for
\* an empty r_in and r_bcm + k_bcm the single element of r_out.
C12_BurnFcmFromEmptyInputList ==
    BurnFcmLive =>
        /\ BurnFcmArgs(bcmv) = [r_in |-> <<>>, r_out |-> <<ScalarAdd(bcmv.r_bcm, bcmv.k_bcm)>>]
        /\ fcmv = Fcm(<<>>, <<ScalarAdd(bcmv.r_bcm, bcmv.k_bcm)>>)

\* C12, amended: burn's fee commitment is what fcm(r_in, r_out) gives for
\* r_bcm + k_bcm the single element of r_in and an empty r_out, that is
\* r_fcm = r_bcm + k_bcm and fcm = Commit64(0, r_bcm + k_bcm).
C12_BurnFcmFromEmptyOutputList ==
    BurnFcmLive =>
        LET s == ScalarAdd(bcmv.r_bcm, bcmv.k_bcm)
        IN  /\ BurnFcmArgs(bcmv) = [r_in |-> <<s>>, r_out |-> <<>>]
            /\ fcmv = Fcm(<<s>>, <<>>)
            /\ fcmv.r_fcm = s
            /\ fcmv.fcm = Commit64(BigZero, s)

\* burn computed its fcm from an r_bcm + k_bcm that is not its own negation,
\* so that the two orders of the lists give different commitments.
C12_Witness ==
    /\ pc = "burn_witness"
    /\ ScalarAdd(bcmv.r_bcm, bcmv.k_bcm) # 0
    /\ fcmv.r_fcm = ScalarAdd(bcmv.r_bcm, bcmv.k_bcm)
    /\ fcmv # Fcm(<<>>, <<ScalarAdd(bcmv.r_bcm, bcmv.k_bcm)>>)

\* |f|, as an integer.
Magnitude(f) == IF BigLess(f, BigZero) THEN BigNeg(f) ELSE f
\* The sum of the input bcm minus the sum of the output bcm of `t`.
BalanceDifference(t) == PointSub(PointSum(InputBcms(t)), PointSum(OutputBcms(t)))

\* C13: on the transition a build assembled, Transition.fcm() returns; and
\* with its fee set to any i64, whenever Transition.fcm() returns, it
\* returns (sum of input bcm - sum of output bcm) minus Commit64(|fee|, 0)
\* for a positive fee, plus Commit64(|fee|, 0) for a negative fee, and
\* exactly the sum of input bcm minus the sum of output bcm for fee = 0,
\* for which subtracting and adding the fee term give the same. It does not
\* return only for fee = i64::MIN in a build with overflow checks.
C13_FcmSignBranches ==
    pc \in {"mint_check", "burn_check"} =>
        /\ FcmCall(transition, overflowChecks).tag = "Ok"
        /\ \A f \in I64Samples :
            LET t == [transition EXCEPT !.fee = f]
                call == FcmCall(t, overflowChecks)
                fee_cm == Commit64(Magnitude(f), 0)
            IN  /\ call.tag \in {"Ok", "Panic"}
                /\ call.tag = "Panic" => overflowChecks /\ f = I64Min
                /\ (call.tag = "Ok" /\ BigLess(BigZero, f)) =>
                        call.fcm = PointSub(BalanceDifference(t), fee_cm)
                /\ (call.tag = "Ok" /\ BigLess(f, BigZero)) =>
                        call.fcm = PointAdd(BalanceDifference(t), fee_cm)
                /\ f = BigZero =>
                        /\ call = [tag |-> "Ok", fcm |-> BalanceDifference(t)]
                        /\ PointSub(BalanceDifference(t), fee_cm) = BalanceDifference(t)
                        /\ PointAdd(BalanceDifference(t), fee_cm) = BalanceDifference(t)

\* A mint of 0 units is at its check: the fee is 0, it is not positive, and
\* Transition.fcm() is the negated bcm of the one output.
C13_Witness ==
    /\ pc = "mint_check"
    /\ transition.fee = BigZero
    /\ ~IsPositive(transition.fee)
    /\ TransitionFcm(transition) = PointSub(PointZero, transition.outputs[1].record.bcm)
    /\ TransitionFcm([transition EXCEPT !.fee = Small(1)]) # TransitionFcm(transition)

\* C14: every circuit build starts from an empty constraint-system context,
\* and the context it counts and the assignment it hands to the prover hold
\* the constraints of its own circuit only, also when it is burn's build
\* after the build of the mint inside burn.
C14_EachBuildStartsFromEmptyContext ==
    /\ pc \in {"mint_circuit", "burn_circuit"} => circuit.constraints = <<>>
    /\ pc \in {"mint_prove", "burn_prove"} =>
            /\ circuit.constraints = <<witness.circuit>>
            /\ assignment.constraints = <<witness.circuit>>

\* deploy has returned, or unwound, from a call with Some(endpoint).
DeployedToEndpoint == dpc = "done" /\ endpoint.tag = "Some"

\* C15: deploy(Some(endpoint)) returns Ok(d) only for d the deployment of
\* the endpoint's response, with the package's program ID; when the
\* response carries another program ID, or sending the request or decoding
\* the response fails, it returns an error that carries no deployment, the
\* locally computed one included.
C15_DeployReturnsTheEchoedDeployment ==
    DeployedToEndpoint =>
        /\ deployRet.tag = "Ok" =>
                /\ request = DeployRequest(deployment, "development_address", package.id)
                /\ response # None
                /\ deployRet = OkDeployment(response.deployment)
                /\ deployRet.deployment.program.id = package.id
        /\ (response # None /\ response.deployment.program.id # package.id) =>
                /\ deployRet = ProgramIdMismatch(response.deployment.program.id, package.id)
                /\ deployRet.tag = "Err"
        /\ (request # None /\ response = None) =>
                /\ deployRet.tag = "Err"
                /\ deployRet.msg \in {"no_answer", "error_status", "bad_body"}
        /\ deployRet.tag # "Ok" => "deployment" \notin DOMAIN deployRet

\* deploy returned the deployment of the response, which is not the one it
\* computed locally.
C15_Witness ==
    /\ DeployedToEndpoint
    /\ response # None
    /\ deployRet = OkDeployment(response.deployment)
    /\ response.deployment # deployment
    /\ response.deployment.program.id = package.id

\* deploy returned from inside the loop over the imports because the
\* fetch of the import at importIdx failed: the request was not answered,
\* was answered with an error status, or its body could not be decoded.
ImportFetchFailed ==
    /\ dpc = "done"
    /\ importIdx <= Len(package.imports)
    /\ deployRet.tag = "Err"
    /\ deployRet.msg \in {"no_answer", "error_status", "needs to be deployed before"}

\* C16: no deployment is computed and no deploy request is made before
\* every import was fetched and added, in import order; and when the fetch
\* of an import fails, for whichever reason, deploy stops at that import,
\* with no deployment computed and no request sent, and returns the error
\* "The program <import> needs to be deployed before <program>".
C16_FailedImportFetchNamesTheImport ==
    /\ (deployment # None \/ request # None) => importIdx = Len(package.imports) + 1
    /\ ImportFetchFailed =>
            /\ deployRet = NeedsDeployment(package.imports[importIdx], package.id)
            /\ deployment = None
            /\ request = None
            /\ response = None

=============================================================================
